---------------------------- MODULE Spec2Model ----------------------------
(***************************************************************************)
(* A model of the noise discovery plugin (Plugin.Receive and               *)
(* Plugin.PeerDisconnect over the shared routing table) and of the base    *)
(* connection adapter's accept loop (ConnectionAdapter.EstablishPassively).*)
(*                                                                         *)
(* Identifiers are IdBits wide instead of 256 bits, public keys are small  *)
(* naturals and the digest is a fixed bijection on them.  The routing      *)
(* table, IsPeerValid and FindNode are not among the source files: they    *)
(* are modelled from the specification's sections 3, 4.3, 4.5 and 4.6.     *)
(***************************************************************************)
EXTENDS Integers, Sequences, FiniteSets, TLC

(***************************************************************************)
(* Bounds of the model.                                                    *)
(***************************************************************************)
\* width of an identifier in bits (256 in the program)
IdBits == 3
\* number of remote public keys that ever talk to this node
NumKeys == 4
\* capacity K of a k-bucket (16 in the program)
BucketSize == 2
\* static puzzle difficulty C1: required leading zero bits of H(public_key)
\* (8 in the program, for 256-bit digests)
C1Difficulty == 1
\* number of connections that ever arrive at the listener
MaxConns == 3
\* number of accept-loop errors that are logged
MaxErrors == 2

\* remote ids and addresses the discovery layer maps
NumRemotes == 2
NumDialAddresses == 2
\* distinct addresses remote peers report, and reports made
NumAddresses == 9
MaxReports == 10
\* ids below this number are the peers handed to the routing table directly
NumTableIDs == 8
\* longest id, in bytes, handed to PrefixLen
MaxIdLen == 2
\* ids below this number are the peers a lookup can learn of, and the
\* largest alpha a lookup is started with besides the plugin's
NumLookupIDs == 6
MaxAlpha == 2

(***************************************************************************)
(* Hash and XOR primitives (spec 4.1), on IdBits-wide naturals.            *)
(***************************************************************************)
RECURSIVE Pow2(_)
Pow2(n) == IF n = 0 THEN 1 ELSE 2 * Pow2(n - 1)

IdSpace == 0 .. (Pow2(IdBits) - 1)

\* stand-in for BLAKE2b-256: a fixed bijection of the key space onto the
\* id space that is not the identity
Hash(pk) == (3 * pk + 1) % Pow2(IdBits)

RECURSIVE XorBits(_, _, _)
XorBits(a, b, n) ==
    IF n = 0 THEN 0
    ELSE (((a % 2) + (b % 2)) % 2) + 2 * XorBits(a \div 2, b \div 2, n - 1)

XorTable == [a \in IdSpace |-> [b \in IdSpace |-> XorBits(a, b, IdBits)]]

\* xor_id: the XOR distance of two ids
XorID(a, b) == XorTable[a][b]

RECURSIVE ZeroBits(_, _)
ZeroBits(x, n) ==
    IF n = 0 THEN 0
    ELSE IF x >= Pow2(n - 1) THEN 0
    ELSE 1 + ZeroBits(x, n - 1)

\* leading zero bits, most significant first; all zeros yields 8*len - 1
LeadingZeroBits(x) == IF x = 0 THEN IdBits - 1 ELSE ZeroBits(x, IdBits)

PrefixLenTable == [x \in IdSpace |-> LeadingZeroBits(x)]

\* prefix_len: leading_zero_bits(id)
PrefixLen(x) == PrefixLenTable[x]

(***************************************************************************)
(* Identities (spec 4.2) and admission (spec 4.3).                         *)
(***************************************************************************)

CreateID(pk) == [pk |-> pk, id |-> Hash(pk)]

\* the owning node's identity; the remote keys are 1 .. NumKeys
Self == CreateID(0)
SelfID == Self.id

HonestPeers == {CreateID(k) : k \in 1 .. NumKeys}
\* a forged identity: a key paired with the digest of another key
ForgedPeers == {[pk |-> NumKeys - 1, id |-> Hash(NumKeys)]}
Peers == HonestPeers \cup ForgedPeers
PeerIDs == {p.id : p \in Peers}

\* a client whose ID is nil
NoPeer == [pk |-> -1, id |-> -1]

\* the static puzzle counts leading zero bits without the all-zero clamp
IsValidKeyPair(pk, c1) == ZeroBits(Hash(pk), IdBits) >= c1

IsPeerValid(p) == IsValidKeyPair(p.pk, C1Difficulty) /\ p.id = Hash(p.pk)

(***************************************************************************)
(* Sequence helpers.                                                       *)
(***************************************************************************)
Elems(s) == {s[i] : i \in 1 .. Len(s)}

Without(s, x) == SelectSeq(s, LAMBDA y : y # x)

Take(s, n) == IF Len(s) <= n THEN s ELSE SubSeq(s, 1, n)

NoDuplicates(s) == \A i, j \in 1 .. Len(s) : i # j => s[i] # s[j]

\* a is closer to target t than b; distinct ids never tie, equal ids compare
\* by id
Closer(a, b, t) ==
    \/ XorID(a, t) < XorID(b, t)
    \/ (XorID(a, t) = XorID(b, t) /\ a < b)

RECURSIVE InsertByDistance(_, _, _)
InsertByDistance(s, x, t) ==
    IF s = <<>> THEN <<x>>
    ELSE IF Closer(x, Head(s), t) THEN <<x>> \o s
    ELSE <<Head(s)>> \o InsertByDistance(Tail(s), x, t)

\* stable sort of a sequence of ids ascending by XOR distance to t
RECURSIVE SortByDistance(_, _)
SortByDistance(s, t) ==
    IF s = <<>> THEN <<>>
    ELSE InsertByDistance(SortByDistance(SubSeq(s, 1, Len(s) - 1), t), s[Len(s)], t)

(***************************************************************************)
(* K-bucket and routing table (spec 4.5).  A table is a function from      *)
(* bucket index to a sequence of ids, most recently seen first.            *)
(***************************************************************************)
BucketIndexes == 0 .. (IdBits - 1)

CreateRoutingTable == [i \in BucketIndexes |-> <<>>]

BucketIndex(p) == PrefixLen(XorID(SelfID, p))

\* variant: a peer already present is pushed again instead of moved
BucketUpdateNoDedup(b, p) ==
    IF Len(b) < BucketSize THEN <<p>> \o b ELSE b

\* variant: a full bucket evicts its tail for the new peer
BucketUpdateEvictsTail(b, p) ==
    IF p \in Elems(b) THEN <<p>> \o Without(b, p)
    ELSE IF Len(b) < BucketSize THEN <<p>> \o b
    ELSE <<p>> \o SubSeq(b, 1, Len(b) - 1)

\* reference policy for a full bucket: drop the new peer
BucketUpdate(b, p) ==
    IF p \in Elems(b) THEN <<p>> \o Without(b, p)
    ELSE IF Len(b) < BucketSize THEN <<p>> \o b
    ELSE b

BucketRemove(b, p) == Without(b, p)

Update(rt, p) ==
    IF p = SelfID THEN rt
    ELSE [rt EXCEPT ![BucketIndex(p)] = BucketUpdate(@, p)]

PeerExists(rt, p) == p \in Elems(rt[BucketIndex(p)])

RemovePeer(rt, p) == [rt EXCEPT ![BucketIndex(p)] = BucketRemove(@, p)]

StoredPeers(rt) == UNION {Elems(rt[i]) : i \in BucketIndexes}

\* buckets at distance i below and above the start bucket, appended whole
RECURSIVE Collect(_, _, _, _, _)
Collect(rt, start, i, n, acc) ==
    IF Len(acc) >= n \/ (start - i < 0 /\ start + i > IdBits - 1) THEN acc
    ELSE Collect(rt, start, i + 1, n,
                 acc \o (IF start - i >= 0 THEN rt[start - i] ELSE <<>>)
                     \o (IF start + i <= IdBits - 1 THEN rt[start + i] ELSE <<>>))

\* variant: the collected candidates are cut to n without being sorted
FindClosestPeersUnsorted(rt, target, n) ==
    LET start == PrefixLen(XorID(SelfID, target))
        got == Collect(rt, start, 1, n, rt[start])
    IN Take(Without(got, SelfID), n)

FindClosestPeers(rt, target, n) ==
    LET start == PrefixLen(XorID(SelfID, target))
        got == Collect(rt, start, 1, n, rt[start])
    IN Take(SortByDistance(Without(got, SelfID), target), n)

(***************************************************************************)
(* State.                                                                  *)
(***************************************************************************)
VARIABLES
    \* Plugin fields
    DisablePing, DisablePong, DisableLookup, EnforceSkademliaNodeIDs, Routes,
    \* the worker running Plugin.Receive: its position, ctx.Sender(),
    \* ctx.Message(), the peers of the FindNode result still to be looped
    \* over, the response handed to ctx.Reply and the error it returned
    rpc, sender, msg, peers, response, err,
    \* what the latest Receive call has done: the messages handed to
    \* ctx.Reply, the number of Routes.Update calls, the FindNode calls, and
    \* the value returned
    replies, updates, findNode, ret,
    \* the worker running Plugin.PeerDisconnect: its position and client.ID
    dpc, client,
    \* what ran during the current PeerDisconnect: "sender" when a Receive
    \* from client.ID did, else "found" when a Receive from another peer
    \* performed Routes.Update(client.ID), else "none"
    interference,
    \* the accept loop of EstablishPassively: its position, whether
    \* c.Cancellation has fired, the connections waiting at the listener, the
    \* number of connections that have arrived, the accepted conn, the
    \* adapter built for it, what the consumer has received from ch,
    \* whether ch is closed and the number of errors logged
    apc, cancelled, pending, arrived, conn, adapter, delivered, chClosed, logged

flagVars == <<DisablePing, DisablePong, DisableLookup, EnforceSkademliaNodeIDs>>
receiveVars ==
    <<rpc, sender, msg, peers, response, err, replies, updates, findNode, ret>>
disconnectVars == <<dpc, client>>
ghostVars == <<interference>>
pluginVars == <<flagVars, Routes, receiveVars, disconnectVars, ghostVars>>
acceptVars ==
    <<apc, cancelled, pending, arrived, conn, adapter, delivered, chClosed, logged>>
VARIABLES
    \* ConnectionAdapter.idToAddress, and for each id the address of the
    \* first MapIDToAddress call that named it
    idToAddress, firstAddress,
    \* the caller running EstablishActively: its position, the remote id,
    \* remoteAddr, the addresses handed to a.Dialer during the call, the
    \* error the Dialer returned and the error EstablishActively returned
    epc, remote, remoteAddr, dialed, dialErr, eret,
    \* ConnectionAdapter.reportedPubliclyVisibleAddresses, the number of
    \* updatePubliclyVisibleAddress calls, the argument of the latest one,
    \* the number of distinct addresses reported so far, and what
    \* getPubliclyVisibleAddress returned since the latest update
    reported, reports, lastAddress, seen, visible

connectionVars ==
    <<idToAddress, firstAddress, epc, remote, remoteAddr, dialed, dialErr, eret>>
tallyVars == <<reported, reports, lastAddress, seen, visible>>

VARIABLES
    \* the latest call made on the routing table directly: the operation,
    \* its peer or target, its count and what it returned
    tableCall,
    \* an identity's id bytes and what PrefixLen returned for it
    idBytes, prefixLen,
    \* one FindNode invocation: its position, target and alpha, the
    \* candidate, queried and failed peers, the requests awaiting a reply,
    \* the peers picked for the round that are still to be sent to, the
    \* number of requests sent to each peer, the closest distance known when
    \* the round began, and the peers returned
    fpc, ftarget, falpha, candidates, queried, failed, outstanding, batch,
    sent, best, found

tableVars == <<tableCall>>
identityVars == <<idBytes, prefixLen>>
lookupVars ==
    <<fpc, ftarget, falpha, candidates, queried, failed, outstanding, batch,
      sent, best, found>>
libraryVars == <<tableVars, identityVars, lookupVars>>
otherVars == <<connectionVars, tallyVars, libraryVars>>
vars == <<pluginVars, acceptVars, otherVars>>

(***************************************************************************)
(* Messages.                                                               *)
(***************************************************************************)
\* lookup fan-out passed to FindNode by the PONG handler
Alpha == 8

Targets == PeerIDs \cup {SelfID}

\* the targets remote peers look up: this node and the first remote peer
LookupTargets == {SelfID, Hash(1)}

Ping == [kind |-> "Ping", target |-> -1]
Pong == [kind |-> "Pong", target |-> -1]
LookupNodeRequest(t) == [kind |-> "LookupNodeRequest", target |-> t]
LookupNodeResponse == [kind |-> "LookupNodeResponse", target |-> -1]
\* a message of a kind the switch has no case for
OtherMessage == [kind |-> "Other", target |-> -1]
NoMessage == [kind |-> "None", target |-> -1]

Messages ==
    {Ping, Pong, LookupNodeResponse, OtherMessage}
        \cup {LookupNodeRequest(t) : t \in LookupTargets}

\* what ctx.Reply is handed
PongReply == [kind |-> "Pong", peers |-> <<>>]
LookupReply(ps) == [kind |-> "LookupNodeResponse", peers |-> ps]
NoReply == [kind |-> "None", peers |-> <<>>]

\* the lists FindNode(net, target, k, alpha) can return: at most k distinct
\* ids, closest to the target first
FindNodeTable ==
    [t \in Targets |->
        {s \in UNION {[1 .. n -> Targets] : n \in 0 .. BucketSize} :
            NoDuplicates(s) /\ SortByDistance(s, t) = s}]

FindNode(target, k, alpha) == {s \in FindNodeTable[target] : Len(s) <= k}

(***************************************************************************)
(* Plugin.Startup: the state after construction.                           *)
(***************************************************************************)
InitPlugin ==
    /\ DisablePing \in BOOLEAN
    /\ DisablePong \in BOOLEAN
    /\ DisableLookup \in BOOLEAN
    /\ EnforceSkademliaNodeIDs \in BOOLEAN
    /\ Routes = CreateRoutingTable
    /\ rpc = "idle" /\ sender = NoPeer /\ msg = NoMessage
    /\ peers = <<>> /\ response = NoReply /\ err = "none"
    /\ replies = <<>> /\ updates = 0 /\ findNode = <<>> /\ ret = "none"
    /\ dpc = "idle" /\ client = NoPeer
    /\ interference = "none"

DisconnectRunning == dpc # "idle"
ReceiveRunning == rpc # "idle"

(***************************************************************************)
(* Plugin.Receive.                                                         *)
(***************************************************************************)
\* variant: the negation of the validity test is dropped
AdmittedNegationDropped(s) == ~(EnforceSkademliaNodeIDs /\ IsPeerValid(s))

\* the admission test of Receive
Admitted(s) == ~(EnforceSkademliaNodeIDs /\ ~IsPeerValid(s))

\* Routes.Update(p) by the Receive worker
ReceiveRoutesUpdate(p) ==
    /\ Routes' = Update(Routes, p)
    /\ updates' = updates + 1
    /\ interference' = IF DisconnectRunning /\ p = client.id /\ interference = "none"
                       THEN "found" ELSE interference

\* Receive returns r
ReceiveReturn(r) ==
    /\ rpc' = "idle" /\ ret' = r
    /\ sender' = NoPeer /\ msg' = NoMessage
    /\ peers' = <<>> /\ response' = NoReply /\ err' = "none"

\* Receive is called with a context whose sender is s
ReceiveCall(s) ==
    /\ rpc = "idle"
    /\ rpc' = "check" /\ sender' = s
    /\ replies' = <<>> /\ updates' = 0 /\ findNode' = <<>> /\ ret' = "none"
    /\ interference' = IF DisconnectRunning /\ s.id = client.id
                       THEN "sender" ELSE interference
    /\ UNCHANGED <<otherVars, flagVars, Routes, msg, peers, response, err, disconnectVars,
                   acceptVars>>

\* an inadmissible sender is turned away with an error
ReceiveCheck ==
    /\ rpc = "check"
    /\ IF Admitted(sender)
       THEN rpc' = "update" /\ UNCHANGED <<sender, msg, peers, response, err, ret>>
       ELSE ReceiveReturn("InvalidPeer")
    /\ UNCHANGED <<otherVars, flagVars, Routes, replies, updates, findNode, disconnectVars,
                   ghostVars, acceptVars>>

\* variant: the sender is not entered into the table
ReceiveUpdateSkipped ==
    /\ rpc = "update"
    /\ rpc' = "switch"
    /\ UNCHANGED <<otherVars, flagVars, Routes, sender, msg, peers, response, err, replies,
                   updates, findNode, ret, disconnectVars, ghostVars, acceptVars>>

\* Update routing for every incoming message
ReceiveUpdate ==
    /\ rpc = "update"
    /\ ReceiveRoutesUpdate(sender.id)
    /\ rpc' = "switch"
    /\ UNCHANGED <<otherVars, flagVars, sender, msg, peers, response, err, replies, findNode,
                   ret, disconnectVars, acceptVars>>

\* switch msg := ctx.Message().(type): the message turns out to be m
ReceiveSwitch(m) ==
    /\ rpc = "switch"
    /\ rpc' = "dispatch" /\ msg' = m
    /\ UNCHANGED <<otherVars, flagVars, Routes, sender, peers, response, err, replies, updates,
                   findNode, ret, disconnectVars, ghostVars, acceptVars>>

ReceivePing ==
    /\ rpc = "dispatch" /\ msg.kind = "Ping"
    /\ IF DisablePing
       THEN ReceiveReturn("nil")
       ELSE /\ rpc' = "reply" /\ response' = PongReply
            /\ UNCHANGED <<sender, msg, peers, err, ret>>
    /\ UNCHANGED <<otherVars, flagVars, Routes, replies, updates, findNode, disconnectVars,
                   ghostVars, acceptVars>>

\* FindNode(ctx.Network(), ctx.Sender(), BucketSize, 8) is called
ReceivePong ==
    /\ rpc = "dispatch" /\ msg.kind = "Pong"
    /\ IF DisablePong
       THEN ReceiveReturn("nil") /\ findNode' = findNode
       ELSE /\ rpc' = "findnode"
            /\ findNode' = Append(findNode,
                   [target |-> sender.id, k |-> BucketSize, alpha |-> Alpha])
            /\ UNCHANGED <<sender, msg, peers, response, err, ret>>
    /\ UNCHANGED <<otherVars, flagVars, Routes, replies, updates, disconnectVars, ghostVars,
                   acceptVars>>

\* FindNode returns the peers it found
ReceiveFindNodeReturn ==
    /\ rpc = "findnode"
    /\ \E ps \in FindNode(findNode[1].target, findNode[1].k, findNode[1].alpha) :
           peers' = ps
    /\ rpc' = "bootstrap"
    /\ UNCHANGED <<otherVars, flagVars, Routes, sender, msg, response, err, replies, updates,
                   findNode, ret, disconnectVars, ghostVars, acceptVars>>

\* variant: the loop updates the sender instead of the peer found
ReceiveBootstrapSender ==
    /\ rpc = "bootstrap" /\ peers # <<>>
    /\ ReceiveRoutesUpdate(sender.id)
    /\ peers' = Tail(peers)
    /\ UNCHANGED <<otherVars, flagVars, rpc, sender, msg, response, err, replies, findNode, ret,
                   disconnectVars, acceptVars>>

\* one iteration of the loop over the peers FindNode returned
ReceiveBootstrap ==
    /\ rpc = "bootstrap" /\ peers # <<>>
    /\ ReceiveRoutesUpdate(Head(peers))
    /\ peers' = Tail(peers)
    /\ UNCHANGED <<otherVars, flagVars, rpc, sender, msg, response, err, replies, findNode, ret,
                   disconnectVars, acceptVars>>

ReceiveBootstrapDone ==
    /\ rpc = "bootstrap" /\ peers = <<>>
    /\ ReceiveReturn("nil")
    /\ UNCHANGED <<otherVars, flagVars, Routes, replies, updates, findNode, disconnectVars,
                   ghostVars, acceptVars>>

\* variant: the closest peers to the sender are sent, not to the target
ReceiveLookupBySender ==
    /\ rpc = "dispatch" /\ msg.kind = "LookupNodeRequest"
    /\ IF DisableLookup
       THEN ReceiveReturn("nil")
       ELSE /\ rpc' = "reply"
            /\ response' =
                   LookupReply(FindClosestPeers(Routes, sender.id, BucketSize))
            /\ UNCHANGED <<sender, msg, peers, err, ret>>
    /\ UNCHANGED <<otherVars, flagVars, Routes, replies, updates, findNode, disconnectVars,
                   ghostVars, acceptVars>>

\* the response is prepared from the closest peers to the target
ReceiveLookup ==
    /\ rpc = "dispatch" /\ msg.kind = "LookupNodeRequest"
    /\ IF DisableLookup
       THEN ReceiveReturn("nil")
       ELSE /\ rpc' = "reply"
            /\ response' =
                   LookupReply(FindClosestPeers(Routes, msg.target, BucketSize))
            /\ UNCHANGED <<sender, msg, peers, err, ret>>
    /\ UNCHANGED <<otherVars, flagVars, Routes, replies, updates, findNode, disconnectVars,
                   ghostVars, acceptVars>>

\* err := ctx.Reply(gCtx, response): the send succeeds or fails
ReceiveReply(ok) ==
    /\ rpc = "reply"
    /\ replies' = Append(replies, response)
    /\ err' = IF ok THEN "nil" ELSE "SendError"
    /\ rpc' = "replied"
    /\ UNCHANGED <<otherVars, flagVars, Routes, sender, msg, peers, response, updates,
                   findNode, ret, disconnectVars, ghostVars, acceptVars>>

\* variant: the error of ctx.Reply is dropped
ReceiveRepliedErrorDropped ==
    /\ rpc = "replied"
    /\ ReceiveReturn("nil")
    /\ UNCHANGED <<otherVars, flagVars, Routes, replies, updates, findNode, disconnectVars,
                   ghostVars, acceptVars>>

\* variant: a sender that cannot be replied to is removed from the table
ReceiveRepliedRemoveOnError ==
    /\ rpc = "replied"
    /\ ReceiveReturn(err)
    /\ Routes' = IF err = "nil" THEN Routes ELSE RemovePeer(Routes, sender.id)
    /\ UNCHANGED <<otherVars, flagVars, replies, updates, findNode, disconnectVars, ghostVars,
                   acceptVars>>

\* if err != nil { return err }; otherwise Receive returns nil
ReceiveReplied ==
    /\ rpc = "replied"
    /\ ReceiveReturn(err)
    /\ UNCHANGED <<otherVars, flagVars, Routes, replies, updates, findNode, disconnectVars,
                   ghostVars, acceptVars>>

\* a message the switch has no case for
ReceiveOther ==
    /\ rpc = "dispatch"
    /\ msg.kind \notin {"Ping", "Pong", "LookupNodeRequest"}
    /\ ReceiveReturn("nil")
    /\ UNCHANGED <<otherVars, flagVars, Routes, replies, updates, findNode, disconnectVars,
                   ghostVars, acceptVars>>

(***************************************************************************)
(* Plugin.PeerDisconnect.                                                  *)
(***************************************************************************)
PeerDisconnectReturn ==
    /\ dpc' = "idle" /\ client' = NoPeer
    /\ interference' = "none"

PeerDisconnectCall(c) ==
    /\ dpc = "idle"
    /\ dpc' = "check" /\ client' = c
    /\ interference' = IF ReceiveRunning /\ sender.id = c.id
                       THEN "sender" ELSE "none"
    /\ UNCHANGED <<otherVars, flagVars, Routes, receiveVars, acceptVars>>

\* client.ID != nil && state.Routes.PeerExists(*client.ID)
PeerDisconnectExists ==
    /\ dpc = "check"
    /\ IF client # NoPeer /\ PeerExists(Routes, client.id)
       THEN dpc' = "remove" /\ UNCHANGED <<client, ghostVars>>
       ELSE PeerDisconnectReturn
    /\ UNCHANGED <<otherVars, flagVars, Routes, receiveVars, acceptVars>>

\* variant: the local node's ID is removed instead of the client's
PeerDisconnectRemoveSelf ==
    /\ dpc = "remove"
    /\ Routes' = RemovePeer(Routes, SelfID)
    /\ dpc' = "log"
    /\ UNCHANGED <<otherVars, flagVars, receiveVars, client, ghostVars, acceptVars>>

PeerDisconnectRemove ==
    /\ dpc = "remove"
    /\ Routes' = RemovePeer(Routes, client.id)
    /\ dpc' = "log"
    /\ UNCHANGED <<otherVars, flagVars, receiveVars, client, ghostVars, acceptVars>>

\* the disconnect is logged and PeerDisconnect returns
PeerDisconnectLog ==
    /\ dpc = "log"
    /\ PeerDisconnectReturn
    /\ UNCHANGED <<otherVars, flagVars, Routes, receiveVars, acceptVars>>

(***************************************************************************)
(* ConnectionAdapter.EstablishPassively: the accept loop.  Connections are *)
(* numbered in the order they arrive at the listener; 0 stands for none.   *)
(***************************************************************************)
\* NewConnectionAdapter: EstablishPassively has not been called yet
InitAccept ==
    /\ apc = "init" /\ cancelled = FALSE /\ pending = <<>> /\ arrived = 0
    /\ conn = 0 /\ adapter = 0 /\ delivered = <<>> /\ chClosed = FALSE
    /\ logged = 0

\* ch := make(chan protocol.MessageAdapter); go func() {...}()
EstablishPassively ==
    /\ apc = "init"
    /\ apc' = "select"
    /\ UNCHANGED <<otherVars, pluginVars, cancelled, pending, arrived, conn, adapter,
                   delivered, chClosed, logged>>

\* the controller's cancellation signal fires
Cancel ==
    /\ ~cancelled
    /\ cancelled' = TRUE
    /\ UNCHANGED <<otherVars, pluginVars, apc, pending, arrived, conn, adapter, delivered,
                   chClosed, logged>>

\* a remote peer connects to the listener
Connect ==
    /\ arrived < MaxConns
    /\ arrived' = arrived + 1
    /\ pending' = Append(pending, arrived + 1)
    /\ UNCHANGED <<otherVars, pluginVars, apc, cancelled, conn, adapter, delivered,
                   chClosed, logged>>

\* select { case <-c.Cancellation: return; default: } with defer close(ch)
LoopSelect ==
    /\ apc = "select"
    /\ IF cancelled
       THEN apc' = "returned" /\ chClosed' = TRUE
       ELSE apc' = "accept" /\ chClosed' = chClosed
    /\ UNCHANGED <<otherVars, pluginVars, cancelled, pending, arrived, conn, adapter,
                   delivered, logged>>

\* a.listener.Accept() returns the next waiting connection
AcceptOk ==
    /\ apc = "accept" /\ pending # <<>>
    /\ conn' = Head(pending) /\ pending' = Tail(pending)
    /\ apc' = "adapter"
    /\ UNCHANGED <<otherVars, pluginVars, cancelled, arrived, adapter, delivered, chClosed,
                   logged>>

\* variant: an Accept error ends the loop
AcceptFailReturns ==
    /\ apc = "accept" /\ logged < MaxErrors
    /\ logged' = logged + 1
    /\ apc' = "returned" /\ chClosed' = TRUE
    /\ UNCHANGED <<otherVars, pluginVars, cancelled, pending, arrived, conn, adapter,
                   delivered>>

\* a.listener.Accept() returns an error: it is logged and the loop continues
AcceptFail ==
    /\ apc = "accept" /\ logged < MaxErrors
    /\ logged' = logged + 1
    /\ apc' = "select"
    /\ UNCHANGED <<otherVars, pluginVars, cancelled, pending, arrived, conn, adapter,
                   delivered, chClosed>>

\* NewMessageAdapter(a, conn, local, nil, "", true) succeeds, or fails and
\* the error is logged and the loop continues
NewMessageAdapter(ok) ==
    /\ apc = "adapter"
    /\ IF ok
       THEN adapter' = conn /\ apc' = "send" /\ logged' = logged
       ELSE /\ logged < MaxErrors
            /\ adapter' = adapter /\ apc' = "select" /\ logged' = logged + 1
    /\ conn' = 0
    /\ UNCHANGED <<otherVars, pluginVars, cancelled, pending, arrived, delivered, chClosed>>

\* variant: a send that does not wait for the consumer and drops the
\* adapter when nobody is receiving
ChanSendNonBlocking ==
    /\ apc = "send"
    /\ \/ delivered' = Append(delivered, adapter)
       \/ delivered' = delivered
    /\ adapter' = 0
    /\ apc' = "select"
    /\ UNCHANGED <<otherVars, pluginVars, cancelled, pending, arrived, conn, chClosed, logged>>

\* ch <- adapter completes when the consumer receives from ch
ChanSend ==
    /\ apc = "send"
    /\ delivered' = Append(delivered, adapter)
    /\ adapter' = 0
    /\ apc' = "select"
    /\ UNCHANGED <<otherVars, pluginVars, cancelled, pending, arrived, conn, chClosed, logged>>

(***************************************************************************)
(* ConnectionAdapter: the id-to-address map and EstablishActively.         *)
(***************************************************************************)
RemoteIDs == 1 .. NumRemotes
DialAddresses == 1 .. NumDialAddresses

\* the zero value of a Go string
EmptyAddress == 0

\* errors.New("not found")
NotFound == "not found"
\* errors a Dialer can return
DialErrors == {"connection refused", "i/o timeout"}

\* sync.Map: Store, Load and Range on a function from keys to values
EmptyMap == [k \in {} |-> EmptyAddress]
Store(m, k, v) == [x \in (DOMAIN m) \cup {k} |-> IF x = k THEN v ELSE m[x]]
Loaded(m, k) == k \in DOMAIN m
Load(m, k) == m[k]

\* the ids the map holds
GetConnectionIDs(m) == DOMAIN m

\* err == nil when the id is mapped, else the not-found error
lookupAddressByID(m, id) ==
    IF Loaded(m, id) THEN [addr |-> Load(m, id), err |-> "nil"]
    ELSE [addr |-> EmptyAddress, err |-> NotFound]

InitConnection ==
    /\ idToAddress = EmptyMap /\ firstAddress = EmptyMap
    /\ epc = "idle" /\ remote = 0 /\ remoteAddr = EmptyAddress
    /\ dialed = <<>> /\ dialErr = "nil" /\ eret = "none"

\* a.idToAddress.Store(string(id), addr)
MapIDToAddress(id, addr) ==
    /\ idToAddress' = Store(idToAddress, id, addr)
    /\ firstAddress' = IF Loaded(firstAddress, id) THEN firstAddress
                       ELSE Store(firstAddress, id, addr)
    /\ UNCHANGED <<pluginVars, acceptVars, libraryVars, epc, remote, remoteAddr, dialed,
                   dialErr, eret, tallyVars>>

EstablishActivelyCall(r) ==
    /\ epc = "idle"
    /\ epc' = "lookup"
    /\ remote' = r
    /\ remoteAddr' = EmptyAddress /\ dialed' = <<>> /\ dialErr' = "nil"
    /\ eret' = "none"
    /\ UNCHANGED <<pluginVars, acceptVars, libraryVars, idToAddress, firstAddress, tallyVars>>

\* variant: a missing id is dialed at the empty address
EstablishActivelyLookupIgnoresError ==
    /\ epc = "lookup"
    /\ remoteAddr' = lookupAddressByID(idToAddress, remote).addr
    /\ epc' = "dial"
    /\ UNCHANGED <<pluginVars, acceptVars, libraryVars, idToAddress, firstAddress, remote,
                   dialed, dialErr, eret, tallyVars>>

\* remoteAddr, err := a.lookupAddressByID(remote); if err != nil return
EstablishActivelyLookup ==
    /\ epc = "lookup"
    /\ LET r == lookupAddressByID(idToAddress, remote)
       IN /\ remoteAddr' = r.addr
          /\ IF r.err # "nil"
             THEN eret' = r.err /\ epc' = "idle"
             ELSE eret' = eret /\ epc' = "dial"
    /\ UNCHANGED <<pluginVars, acceptVars, libraryVars, idToAddress, firstAddress, remote,
                   dialed, dialErr, tallyVars>>

\* conn, err := a.Dialer(remoteAddr); if err != nil return nil, err
EstablishActivelyDial(e) ==
    /\ epc = "dial"
    /\ dialed' = Append(dialed, remoteAddr)
    /\ dialErr' = e
    /\ IF e # "nil"
       THEN eret' = e /\ epc' = "idle"
       ELSE eret' = eret /\ epc' = "adapter"
    /\ UNCHANGED <<pluginVars, acceptVars, libraryVars, idToAddress, firstAddress, remote,
                   remoteAddr, tallyVars>>

\* return NewMessageAdapter(a, conn, local, remote, remoteAddr, false)
EstablishActivelyReturn(ok) ==
    /\ epc = "adapter"
    /\ eret' = IF ok THEN "nil" ELSE "adapter error"
    /\ epc' = "idle"
    /\ UNCHANGED <<pluginVars, acceptVars, libraryVars, idToAddress, firstAddress, remote,
                   remoteAddr, dialed, dialErr, tallyVars>>

(***************************************************************************)
(* ConnectionAdapter: the tally of reported publicly visible addresses.    *)
(* Both methods hold reportedPubliclyVisibleAddressesMutex from start to   *)
(* end, so each is one step.  count is a uint64; the calls made stay far   *)
(* below its range.                                                        *)
(***************************************************************************)
MaxPublicVisibleAddressCandidates == 8

ReportAddresses == 1 .. NumAddresses
NoResult == -1

\* index of the first entry holding address, 0 when there is none
RECURSIVE IndexOfAddress(_, _, _)
IndexOfAddress(list, address, i) ==
    IF i > Len(list) THEN 0
    ELSE IF list[i].address = address THEN i
    ELSE IndexOfAddress(list, address, i + 1)

Swap(list, p) == [list EXCEPT ![p] = list[p + 1], ![p + 1] = list[p]]

\* variant: the incremented entry is left where it is
BubbleUpSkipped(list, p) == list

\* for p >= 0 { if list[p].count < list[p+1].count { swap; p-- } else break }
\* with p counted from 1
RECURSIVE BubbleUp(_, _)
BubbleUp(list, p) ==
    IF p >= 1 /\ list[p].count < list[p + 1].count
    THEN BubbleUp(Swap(list, p), p - 1)
    ELSE list

\* variant: a full list is not truncated before the append
AppendAddressNoEviction(list, address) ==
    Append(list, [address |-> address, count |-> 1])

\* truncate to MaxPublicVisibleAddressCandidates-1 entries, then append
AppendAddress(list, address) ==
    Append(IF Len(list) > MaxPublicVisibleAddressCandidates - 1
           THEN SubSeq(list, 1, MaxPublicVisibleAddressCandidates - 1)
           ELSE list,
           [address |-> address, count |-> 1])

ReportedAfterUpdate(list, address) ==
    LET i == IndexOfAddress(list, address, 1)
    IN IF i # 0
       THEN BubbleUp([list EXCEPT ![i].count = @ + 1], i - 1)
       ELSE AppendAddress(list, address)

InitTally ==
    /\ reported = <<>> /\ reports = 0 /\ lastAddress = EmptyAddress
    /\ seen = 0 /\ visible = NoResult

\* Addresses are compared only for equality, so an address that has not
\* been reported before is named by the next unused number.
updatePubliclyVisibleAddress(address) ==
    /\ reports < MaxReports
    /\ address <= seen + 1
    /\ reported' = ReportedAfterUpdate(reported, address)
    /\ reports' = reports + 1
    /\ lastAddress' = address
    /\ seen' = IF address = seen + 1 THEN seen + 1 ELSE seen
    /\ visible' = NoResult
    /\ UNCHANGED <<pluginVars, acceptVars, libraryVars, connectionVars>>

getPubliclyVisibleAddress ==
    /\ visible = NoResult
    /\ visible' = IF Len(reported) > 0 THEN reported[1].address ELSE EmptyAddress
    /\ UNCHANGED <<pluginVars, acceptVars, libraryVars, connectionVars, reported, reports,
                   lastAddress, seen>>

(***************************************************************************)
(* The routing table called directly, with any id as peer or target.       *)
(***************************************************************************)
TableIDs == {x \in IdSpace : x < NumTableIDs}

NoCall == [op |-> "none", peer |-> -1, n |-> 0, result |-> <<>>]

InitTable == tableCall = NoCall

tableFrame ==
    <<flagVars, receiveVars, disconnectVars, ghostVars, acceptVars,
      connectionVars, tallyVars, identityVars, lookupVars>>

TableUpdate(p) ==
    /\ Routes' = Update(Routes, p)
    /\ tableCall' = [op |-> "update", peer |-> p, n |-> 0, result |-> <<>>]
    /\ UNCHANGED tableFrame

TableRemovePeer(p) ==
    /\ Routes' = RemovePeer(Routes, p)
    /\ tableCall' = [op |-> "remove", peer |-> p, n |-> 0, result |-> <<>>]
    /\ UNCHANGED tableFrame

TableFindClosestPeers(target, n) ==
    /\ tableCall' = [op |-> "find", peer |-> target, n |-> n,
                     result |-> FindClosestPeers(Routes, target, n)]
    /\ UNCHANGED <<Routes, tableFrame>>

(***************************************************************************)
(* peer.ID.PrefixLen on id bytes (spec 4.1, 4.2).                          *)
(***************************************************************************)
ByteValues == {0, 1, 2, 3, 4, 8, 16, 32, 64, 127, 128, 255}

\* binary.LittleEndian.PutUint32
PutUint32(v) ==
    <<v % 256, (v \div 256) % 256, (v \div 65536) % 256, (v \div 16777216) % 256>>

\* the table of TestPrefixLen
TestPrefixLenCases ==
    {[publicKeyHash |-> 1, expected |-> 7], [publicKeyHash |-> 2, expected |-> 6],
     [publicKeyHash |-> 4, expected |-> 5], [publicKeyHash |-> 8, expected |-> 4],
     [publicKeyHash |-> 16, expected |-> 3], [publicKeyHash |-> 32, expected |-> 2],
     [publicKeyHash |-> 64, expected |-> 1]}

IdByteStrings ==
    UNION {[1 .. n -> ByteValues] : n \in 1 .. MaxIdLen}
      \cup {PutUint32(c.publicKeyHash) : c \in TestPrefixLenCases}

\* leading zero bits of one byte
LeadingZeros8(b) == ZeroBits(b, 8)

\* variant: an all-zero id yields the number of its bits
PrefixLenFromUnclamped(id, i) ==
    IF \A j \in i .. Len(id) : id[j] = 0 THEN 8 * Len(id)
    ELSE LET j == CHOOSE j \in i .. Len(id) :
                     id[j] # 0 /\ \A h \in i .. (j - 1) : id[h] = 0
         IN (j - 1) * 8 + LeadingZeros8(id[j])

\* the bytes from the i-th on: the first non-zero byte decides, and an id
\* without one yields 8*len - 1
RECURSIVE PrefixLenFrom(_, _)
PrefixLenFrom(id, i) ==
    IF i > Len(id) THEN 8 * Len(id) - 1
    ELSE IF id[i] # 0 THEN (i - 1) * 8 + LeadingZeros8(id[i])
    ELSE PrefixLenFrom(id, i + 1)

InitIdentity == idBytes = <<>> /\ prefixLen = NoResult

IDPrefixLen ==
    /\ idBytes # <<>> /\ prefixLen = NoResult
    /\ prefixLen' = PrefixLenFrom(idBytes, 1)
    /\ UNCHANGED <<pluginVars, acceptVars, connectionVars, tallyVars, tableVars,
                   idBytes, lookupVars>>

(***************************************************************************)
(* Iterative FIND_NODE (spec 4.6).                                         *)
(***************************************************************************)
LookupIDs == {x \in IdSpace \ {SelfID} : x < NumLookupIDs}
Alphas == (1 .. MaxAlpha) \cup {Alpha}

\* the routing table after Update of each peer of a sequence
RECURSIVE SeedTable(_)
SeedTable(s) ==
    IF s = <<>> THEN CreateRoutingTable
    ELSE Update(SeedTable(SubSeq(s, 1, Len(s) - 1)), s[Len(s)])

LookupSeeds == {<<4, 2>>, <<4, 5, 2, 0>>}

\* larger than every distance
Farthest == Pow2(IdBits)

MinDistance(S, t) ==
    IF S = {} THEN Farthest
    ELSE LET m == CHOOSE p \in S : \A q \in S : XorID(p, t) <= XorID(q, t)
         IN XorID(m, t)

\* the up-to-n members of S closest to t
ClosestOf(S, t, n) ==
    {p \in S : Cardinality({q \in S : XorID(q, t) < XorID(p, t)}) < n}

RECURSIVE SortedByDistance(_, _)
SortedByDistance(S, t) ==
    IF S = {} THEN <<>>
    ELSE LET m == CHOOSE p \in S : \A q \in S : XorID(p, t) <= XorID(q, t)
         IN <<m>> \o SortedByDistance(S \ {m}, t)

InitLookup ==
    /\ fpc = "idle" /\ ftarget = -1 /\ falpha = 0
    /\ candidates = {} /\ queried = {} /\ failed = {} /\ outstanding = {}
    /\ batch = {} /\ sent = <<>> /\ best = -1 /\ found = <<>>

lookupFrame ==
    <<pluginVars, acceptVars, connectionVars, tallyVars, tableVars, identityVars>>

\* step 1 and 2: the shortlist seeds the candidates, nothing is queried
LookupStart(target, alpha) ==
    /\ fpc = "idle"
    /\ ftarget' = target /\ falpha' = alpha
    /\ candidates' = Elems(FindClosestPeers(Routes, target, alpha))
    /\ queried' = {} /\ failed' = {} /\ outstanding' = {} /\ batch' = {}
    /\ sent' = [p \in LookupIDs |-> 0]
    /\ best' = Farthest
    /\ found' = <<>>
    /\ fpc' = "pick"
    /\ UNCHANGED lookupFrame

\* step 6: the k closest candidates that did not fail
LookupResult == Take(SortedByDistance(candidates \ failed, ftarget), BucketSize)

\* variant: every unqueried candidate is picked for the round
LookupPickAll ==
    /\ fpc = "pick"
    /\ IF candidates \ queried = {}
       THEN /\ fpc' = "done" /\ found' = LookupResult
            /\ UNCHANGED <<batch, best>>
       ELSE /\ batch' = candidates \ queried
            /\ best' = MinDistance(candidates, ftarget)
            /\ fpc' = "send" /\ found' = found
    /\ UNCHANGED <<lookupFrame, ftarget, falpha, candidates, queried, failed,
                   outstanding, sent>>

\* step 3: pick the up-to-alpha unqueried candidates closest to the target
LookupPick ==
    /\ fpc = "pick"
    /\ IF candidates \ queried = {}
       THEN /\ fpc' = "done" /\ found' = LookupResult
            /\ UNCHANGED <<batch, best>>
       ELSE /\ batch' = ClosestOf(candidates \ queried, ftarget, falpha)
            /\ best' = MinDistance(candidates, ftarget)
            /\ fpc' = "send" /\ found' = found
    /\ UNCHANGED <<lookupFrame, ftarget, falpha, candidates, queried, failed,
                   outstanding, sent>>

\* step 3: send LOOKUP_NODE_REQUEST(target) to a picked peer, mark it queried
LookupSend(p) ==
    /\ fpc = "send" /\ p \in batch
    /\ batch' = batch \ {p}
    /\ outstanding' = outstanding \cup {p}
    /\ queried' = queried \cup {p}
    /\ sent' = [sent EXCEPT ![p] = @ + 1]
    /\ fpc' = IF batch' = {} THEN "collect" ELSE "send"
    /\ UNCHANGED <<lookupFrame, ftarget, falpha, candidates, failed, best, found>>

\* step 4: a LOOKUP_NODE_RESPONSE arrives with up to K peers, which join the
\* candidates
LookupResponse(p, ps) ==
    /\ fpc \in {"send", "collect"} /\ p \in outstanding
    /\ Cardinality(ps) <= BucketSize
    /\ outstanding' = outstanding \ {p}
    /\ candidates' = candidates \cup (ps \ {SelfID})
    /\ UNCHANGED <<lookupFrame, fpc, ftarget, falpha, queried, failed, batch,
                   sent, best, found>>

\* step 3: the request times out or errors, the peer is marked failed
LookupTimeout(p) ==
    /\ fpc \in {"send", "collect"} /\ p \in outstanding
    /\ outstanding' = outstanding \ {p}
    /\ failed' = failed \cup {p}
    /\ UNCHANGED <<lookupFrame, fpc, ftarget, falpha, candidates, queried,
                   batch, sent, best, found>>

\* step 5: another round when this one came closer to the target and
\* candidates are left to query
LookupRoundEnd ==
    /\ fpc = "collect" /\ outstanding = {}
    /\ IF MinDistance(candidates, ftarget) < best /\ candidates \ queried # {}
       THEN fpc' = "pick" /\ found' = found
       ELSE fpc' = "done" /\ found' = LookupResult
    /\ UNCHANGED <<lookupFrame, ftarget, falpha, candidates, queried, failed,
                   outstanding, batch, sent, best>>

(***************************************************************************)
(* The discovery plugin: one worker delivering messages to Receive, one    *)
(* delivering disconnects to PeerDisconnect, sharing Routes.               *)
(***************************************************************************)
InitOther ==
    InitConnection /\ InitTally /\ InitTable /\ InitIdentity /\ InitLookup

Init == InitPlugin /\ InitAccept /\ InitOther

Next ==
    \/ \E s \in Peers : ReceiveCall(s)
    \/ ReceiveCheck
    \/ ReceiveUpdate
    \/ \E m \in Messages : ReceiveSwitch(m)
    \/ ReceivePing
    \/ ReceivePong
    \/ ReceiveFindNodeReturn
    \/ ReceiveBootstrap
    \/ ReceiveBootstrapDone
    \/ ReceiveLookup
    \/ \E ok \in BOOLEAN : ReceiveReply(ok)
    \/ ReceiveReplied
    \/ ReceiveOther
    \/ \E c \in HonestPeers \cup {NoPeer} : PeerDisconnectCall(c)
    \/ PeerDisconnectExists
    \/ PeerDisconnectRemove
    \/ PeerDisconnectLog

Spec == Init /\ [][Next]_vars

(***************************************************************************)
(* The accept loop with its environment: the controller, the remote peers  *)
(* connecting and the consumer of the channel.  The plugin is left with    *)
(* its flags unset.                                                        *)
(***************************************************************************)
InitAcceptLoop ==
    /\ InitPlugin
    /\ ~DisablePing /\ ~DisablePong /\ ~DisableLookup /\ ~EnforceSkademliaNodeIDs
    /\ InitAccept
    /\ InitOther

NextAccept ==
    \/ EstablishPassively
    \/ Cancel
    \/ Connect
    \/ LoopSelect
    \/ AcceptOk
    \/ AcceptFail
    \/ \E ok \in BOOLEAN : NewMessageAdapter(ok)
    \/ ChanSend

SpecAccept == InitAcceptLoop /\ [][NextAccept]_vars

\* The goroutine is scheduled: every step of the loop that can be taken is
\* taken, Accept returns a connection that is waiting, and the consumer keeps
\* receiving.  Nothing makes a peer connect, Accept fail or the controller
\* cancel.
FairSpecAccept ==
    /\ SpecAccept
    /\ WF_vars(EstablishPassively)
    /\ WF_vars(LoopSelect)
    /\ WF_vars(AcceptOk)
    /\ WF_vars(\E ok \in BOOLEAN : NewMessageAdapter(ok))
    /\ WF_vars(ChanSend)

(***************************************************************************)
(* EstablishActively with the discovery layer mapping ids concurrently.    *)
(***************************************************************************)
InitActive == InitAcceptLoop

NextActive ==
    \/ \E id \in RemoteIDs, addr \in DialAddresses : MapIDToAddress(id, addr)
    \/ \E r \in RemoteIDs : EstablishActivelyCall(r)
    \/ EstablishActivelyLookup
    \/ \E e \in DialErrors \cup {"nil"} : EstablishActivelyDial(e)
    \/ \E ok \in BOOLEAN : EstablishActivelyReturn(ok)

SpecActive == InitActive /\ [][NextActive]_vars

(***************************************************************************)
(* Remote peers reporting the address they see, and readers of the tally.  *)
(***************************************************************************)
InitReports == InitAcceptLoop

NextReports ==
    \/ \E address \in ReportAddresses : updatePubliclyVisibleAddress(address)
    \/ getPubliclyVisibleAddress

SpecReports == InitReports /\ [][NextReports]_vars

(***************************************************************************)
(* Any sequence of calls on the routing table.                             *)
(***************************************************************************)
InitTableCalls == InitAcceptLoop

NextTable ==
    \/ \E p \in TableIDs : TableUpdate(p)
    \/ \E p \in TableIDs : TableRemovePeer(p)
    \/ \E target \in IdSpace, n \in 0 .. (BucketSize + 1) :
          TableFindClosestPeers(target, n)

SpecTable == InitTableCalls /\ [][NextTable]_vars

(***************************************************************************)
(* PrefixLen applied to an identity.                                       *)
(***************************************************************************)
InitIdentities ==
    /\ InitPlugin
    /\ ~DisablePing /\ ~DisablePong /\ ~DisableLookup /\ ~EnforceSkademliaNodeIDs
    /\ InitAccept
    /\ InitConnection /\ InitTally /\ InitTable /\ InitLookup
    /\ idBytes \in IdByteStrings /\ prefixLen = NoResult

NextIdentity == IDPrefixLen

SpecIdentity == InitIdentities /\ [][NextIdentity]_vars

(***************************************************************************)
(* One FindNode invocation on a table that has seen some peers, with the   *)
(* queried peers answering, failing or timing out.                         *)
(***************************************************************************)
InitLookups ==
    /\ DisablePing = FALSE /\ DisablePong = FALSE /\ DisableLookup = FALSE
    /\ EnforceSkademliaNodeIDs = FALSE
    /\ Routes \in {SeedTable(s) : s \in LookupSeeds}
    /\ rpc = "idle" /\ sender = NoPeer /\ msg = NoMessage
    /\ peers = <<>> /\ response = NoReply /\ err = "none"
    /\ replies = <<>> /\ updates = 0 /\ findNode = <<>> /\ ret = "none"
    /\ dpc = "idle" /\ client = NoPeer
    /\ interference = "none"
    /\ InitAccept
    /\ InitOther

NextLookup ==
    \/ \E target \in LookupIDs, alpha \in Alphas : LookupStart(target, alpha)
    \/ LookupPick
    \/ \E p \in LookupIDs : LookupSend(p)
    \/ \E p \in LookupIDs, ps \in SUBSET LookupIDs : LookupResponse(p, ps)
    \/ \E p \in LookupIDs : LookupTimeout(p)
    \/ LookupRoundEnd

SpecLookup == InitLookups /\ [][NextLookup]_vars

(***************************************************************************)
(* Properties of Plugin.Receive.  A step of the Receive worker is one that *)
(* changes rpc, or peers or updates inside the bootstrap loop.             *)
(***************************************************************************)
\* C1: with EnforceSkademliaNodeIDs set, a Receive whose sender fails
\* IsPeerValid returns the InvalidPeer error, leaves the routing table as it
\* was, sends no reply and starts no FindNode; the message is not read
\* before the test, so this is so for every kind of message.
C1_AdmissionRejection ==
    /\ [][(rpc = "check" /\ rpc' # "check"
              /\ EnforceSkademliaNodeIDs /\ ~IsPeerValid(sender))
            => (/\ rpc' = "idle" /\ ret' = "InvalidPeer"
                /\ Routes' = Routes /\ updates' = 0
                /\ replies' = <<>> /\ findNode' = <<>>)]_vars
    /\ [](ret = "InvalidPeer"
            => (rpc = "idle" /\ updates = 0 /\ replies = <<>> /\ findNode = <<>>))

\* a sender has been turned away while the table holds peers
C1_Witness ==
    /\ ret = "InvalidPeer" /\ EnforceSkademliaNodeIDs
    /\ StoredPeers(Routes) # {}

\* C2: a Receive with enforcement off, or with a valid sender, performs
\* Routes.Update(sender) exactly once before the message is dispatched,
\* whatever the message kind and the Disable flags.
C2_SenderUpdatedOnce ==
    /\ [][(rpc = "check" /\ rpc' # "check"
              /\ (~EnforceSkademliaNodeIDs \/ IsPeerValid(sender)))
            => (rpc' = "update" /\ Routes' = Routes /\ updates' = 0)]_vars
    /\ [][(rpc = "update" /\ rpc' # "update")
            => (/\ rpc' = "switch" /\ updates' = 1
                /\ Routes' = Update(Routes, sender.id))]_vars
    /\ [][(rpc = "switch" /\ rpc' # "switch")
            => (rpc' = "dispatch" /\ Routes' = Routes /\ updates' = 1)]_vars
    /\ [](rpc \in {"switch", "dispatch", "reply", "replied", "findnode"}
            => updates = 1)
    /\ [](rpc = "bootstrap" => updates >= 1)

\* the sender of a message of no handled kind has been entered, with
\* every flag set
C2_Witness ==
    /\ rpc = "dispatch" /\ msg = OtherMessage /\ updates = 1
    /\ DisablePing /\ DisablePong /\ DisableLookup /\ EnforceSkademliaNodeIDs
    /\ PeerExists(Routes, sender.id)

\* C3: on LOOKUP_NODE_REQUEST(target) with DisableLookup unset, Receive
\* sends exactly one LOOKUP_NODE_RESPONSE whose peers are
\* FindClosestPeers(target, BucketSize), in that order and at most
\* BucketSize of them; with DisableLookup set it sends nothing.
C3_LookupReply ==
    /\ [][(rpc = "dispatch" /\ rpc' # "dispatch" /\ msg.kind = "LookupNodeRequest")
            => IF DisableLookup
               THEN rpc' = "idle" /\ replies' = <<>> /\ ret' = "nil"
               ELSE /\ rpc' = "reply" /\ replies' = <<>>
                    /\ response'.kind = "LookupNodeResponse"
                    /\ response'.peers =
                           FindClosestPeers(Routes, msg.target, BucketSize)
                    /\ Len(response'.peers) <= BucketSize]_vars
    /\ [][(rpc = "reply" /\ rpc' # "reply")
            => (rpc' = "replied" /\ replies' = <<response>>)]_vars
    /\ [][(rpc = "replied" /\ rpc' # "replied")
            => (rpc' = "idle" /\ replies' = replies)]_vars
    /\ [](Len(replies) <= 1)

\* a response with BucketSize peers has been sent
C3_Witness ==
    /\ rpc = "idle" /\ ret = "nil" /\ Len(replies) = 1
    /\ replies[1].kind = "LookupNodeResponse"
    /\ Len(replies[1].peers) = BucketSize

\* C4: on PING, Receive replies with exactly one PONG if and only if
\* DisablePing is unset; a PONG is sent for no other kind of message; the
\* error of a failed reply is what Receive returns.
C4_PingReply ==
    /\ [][(rpc = "dispatch" /\ rpc' # "dispatch" /\ msg.kind = "Ping")
            => IF DisablePing
               THEN rpc' = "idle" /\ replies' = <<>> /\ ret' = "nil"
               ELSE rpc' = "reply" /\ response' = PongReply /\ replies' = <<>>]_vars
    /\ [](rpc \in {"reply", "replied"}
            => ((response.kind = "Pong") <=> (msg.kind = "Ping")))
    /\ [][(rpc = "reply" /\ rpc' # "reply")
            => (rpc' = "replied" /\ replies' = <<response>>)]_vars
    /\ [][(rpc = "replied" /\ rpc' # "replied")
            => (rpc' = "idle" /\ ret' = err /\ replies' = replies)]_vars
    /\ [](rpc = "replied" => err \in {"nil", "SendError"})

\* a PONG could not be sent and Receive has returned the error
C4_Witness ==
    /\ rpc = "idle" /\ ret = "SendError" /\ replies = <<PongReply>>

\* C5: on PONG with DisablePong unset, Receive calls FindNode with the
\* sender as target, k = BucketSize and alpha = 8, and then performs
\* Routes.Update(p) for every peer p of the list returned, in order; with
\* DisablePong set it calls no FindNode and the sender update is its only
\* change to the table.
C5_PongBootstrap ==
    /\ [][(rpc = "dispatch" /\ rpc' # "dispatch" /\ msg.kind = "Pong")
            => IF DisablePong
               THEN /\ rpc' = "idle" /\ ret' = "nil" /\ findNode' = <<>>
                    /\ Routes' = Routes /\ updates' = 1
               ELSE /\ rpc' = "findnode" /\ Routes' = Routes
                    /\ findNode' =
                           <<[target |-> sender.id, k |-> BucketSize, alpha |-> 8]>>]_vars
    /\ [][(rpc = "findnode" /\ rpc' # "findnode")
            => (rpc' = "bootstrap" /\ Routes' = Routes /\ updates' = 1)]_vars
    /\ [][(rpc = "bootstrap"
              /\ (rpc' # "bootstrap" \/ peers' # peers \/ updates' # updates))
            => IF peers # <<>>
               THEN /\ Routes' = Update(Routes, Head(peers))
                    /\ peers' = Tail(peers) /\ updates' = updates + 1
                    /\ rpc' = "bootstrap"
               ELSE rpc' = "idle" /\ ret' = "nil" /\ Routes' = Routes]_vars
    /\ [](findNode # <<>> => (~DisablePong /\ Len(findNode) = 1))
    /\ [](rpc \in {"findnode", "bootstrap"} => (msg.kind = "Pong" /\ findNode # <<>>))

\* FindNode returned two peers and both have been entered after the sender
C5_Witness ==
    /\ rpc = "bootstrap" /\ peers = <<>> /\ updates = 3 /\ findNode # <<>>

(***************************************************************************)
(* Properties of the routing table under Receive and PeerDisconnect.       *)
(***************************************************************************)
\* what PeerDisconnect may do to the table: nothing, unless the client has
\* an ID that is in the table, and then remove that ID
PeerDisconnectFrame ==
    [][(dpc' # dpc /\ Routes' # Routes)
         => (/\ client # NoPeer /\ PeerExists(Routes, client.id)
             /\ Routes' = RemovePeer(Routes, client.id))]_vars

\* C6 as stated: when PeerDisconnect(p) returns for a client with an ID, and
\* no Receive from p ran during it, p is not in the table; the table is
\* unchanged if p was not in it or the client has no ID.
C6_AsStated ==
    /\ [][(dpc # "idle" /\ dpc' = "idle" /\ client # NoPeer
              /\ interference # "sender")
            => ~PeerExists(Routes', client.id)]_vars
    /\ PeerDisconnectFrame

\* C6, amended: when PeerDisconnect(p) returns for a client with an ID, and
\* during it no Receive from p ran and no Receive performed
\* Routes.Update(p) for a peer FindNode returned, p is not in the table; the
\* table is unchanged if p was not in it or the client has no ID.
C6_DisconnectRemoval ==
    /\ [][(dpc # "idle" /\ dpc' = "idle" /\ client # NoPeer
              /\ interference = "none")
            => ~PeerExists(Routes', client.id)]_vars
    /\ PeerDisconnectFrame

\* a stored peer has been removed, undisturbed, and others are still stored
C6_Witness ==
    /\ dpc = "log" /\ interference = "none"
    /\ ~PeerExists(Routes, client.id)
    /\ StoredPeers(Routes) # {}

\* every stored id is in the bucket of its distance, once, and no bucket
\* holds more than BucketSize ids or the local id
RoutesWellFormed ==
    \A i \in BucketIndexes :
        /\ Len(Routes[i]) <= BucketSize
        /\ NoDuplicates(Routes[i])
        /\ \A p \in Elems(Routes[i]) : p # SelfID /\ BucketIndex(p) = i

C8_OnlyDisconnectRemoves ==
    [][\A p \in Targets :
         (PeerExists(Routes, p) /\ ~PeerExists(Routes', p))
           => (dpc = "remove" /\ dpc' = "log" /\ client.id = p)]_vars

\* a new sender met a full bucket and was dropped
C8_Witness ==
    /\ rpc = "switch"
    /\ ~PeerExists(Routes, sender.id)
    /\ Len(Routes[BucketIndex(sender.id)]) = BucketSize

(***************************************************************************)
(* Properties of the accept loop.                                          *)
(***************************************************************************)
\* C9: once c.Cancellation has fired, the accept loop that
\* EstablishPassively started eventually closes its output channel,
\* wherever the loop is at that moment.
C9_CancellationClosesChannel ==
    (cancelled /\ apc # "init") ~> chClosed

\* C10: a failed listener.Accept or a failed NewMessageAdapter is logged and
\* the loop goes on to its next iteration: it does not close the channel
\* and delivers nothing on it; the channel is closed only by the loop
\* returning after it has seen the cancellation signal.
C10_AcceptErrorsSwallowed ==
    /\ [][logged' # logged
            => (/\ apc \in {"accept", "adapter"} /\ apc' = "select"
                /\ chClosed' = chClosed /\ ~chClosed'
                /\ delivered' = delivered)]_vars
    /\ [][(apc \in {"accept", "adapter"} /\ apc' \notin {apc, "adapter", "send"})
            => (apc' = "select" /\ logged' = logged + 1)]_vars
    /\ [][chClosed' # chClosed
            => (apc = "select" /\ cancelled /\ apc' = "returned" /\ chClosed')]_vars
    /\ [](chClosed => (cancelled /\ apc = "returned"))

\* an Accept failed and an adapter could not be built, and the loop is
\* waiting in Accept again with the channel open and nothing delivered
C10_Witness ==
    /\ logged = 2 /\ arrived = 1 /\ pending = <<>> /\ delivered = <<>>
    /\ apc = "accept" /\ ~chClosed

(***************************************************************************)
(* Properties of ConnectionAdapter.                                        *)
(***************************************************************************)
\* C11: EstablishActively for a remote id that is not in the id-to-address
\* map returns the not-found error without calling the Dialer; for a mapped
\* id the Dialer is called exactly once, with the mapped address, and an
\* error it returns is what EstablishActively returns.
C11_NotFoundOnActiveEstablishment ==
    /\ [][(epc = "lookup" /\ epc' # "lookup")
            => IF ~Loaded(idToAddress, remote)
               THEN epc' = "idle" /\ eret' = NotFound /\ dialed' = <<>>
               ELSE /\ epc' = "dial" /\ dialed' = <<>>
                    /\ remoteAddr' = Load(idToAddress, remote)]_vars
    /\ [][(epc = "dial" /\ epc' # "dial")
            => /\ dialed' = <<remoteAddr>>
               /\ dialErr' # "nil" => (epc' = "idle" /\ eret' = dialErr')
               /\ dialErr' = "nil" => epc' = "adapter"]_vars
    /\ []((epc = "idle" /\ eret = NotFound) => dialed = <<>>)
    /\ []((epc = "adapter" \/ (epc = "idle" /\ eret \notin {"none", NotFound}))
            => dialed = <<remoteAddr>>)

\* a call for an unmapped id has returned not-found while the other id is
\* mapped
C11_Witness ==
    /\ epc = "idle" /\ eret = NotFound /\ dialed = <<>>
    /\ ~Loaded(idToAddress, remote) /\ idToAddress # EmptyMap

\* C12: the id-to-address map is append-only: across every MapIDToAddress
\* call an id that has an address keeps that address and stays in the map,
\* and lookupAddressByID(id) returns the address recorded when the id was
\* first observed.
C12_AppendOnlyMap ==
    /\ [][\A id \in GetConnectionIDs(idToAddress) :
            /\ id \in GetConnectionIDs(idToAddress')
            /\ Load(idToAddress', id) = Load(idToAddress, id)]_vars
    /\ [](\A id \in GetConnectionIDs(idToAddress) :
            /\ lookupAddressByID(idToAddress, id).err = "nil"
            /\ lookupAddressByID(idToAddress, id).addr = Load(firstAddress, id))

\* C13: the reported-address list holds at most 8 entries and is sorted by
\* count, largest first, so getPubliclyVisibleAddress returns an address of
\* maximal count, and the empty string when the list is empty.
C13_AddressTallyInvariant ==
    /\ Len(reported) <= 8
    /\ \A i \in 1 .. (Len(reported) - 1) :
          reported[i].count >= reported[i + 1].count
    /\ visible # NoResult
         => IF reported = <<>> THEN visible = EmptyAddress
            ELSE \E i \in 1 .. Len(reported) :
                    /\ reported[i].address = visible
                    /\ \A j \in 1 .. Len(reported) :
                          reported[j].count <= reported[i].count

\* the list is full, an address reported later than the first has bubbled
\* to the front, and a reader has been given it
C13_Witness ==
    /\ Len(reported) = 8
    /\ reported[1].address # 1 /\ reported[1].count > reported[2].count
    /\ visible = reported[1].address

\* C14: after updatePubliclyVisibleAddress(a) the address a is in the list;
\* if a was absent from a list of 8, the last entry is the one evicted, a is
\* appended with count 1 and the other 7 entries are as before; if a was
\* present its count grows by exactly 1 and no entry is evicted.
C14_AddressTallyEviction ==
    [][reports' = reports + 1
        => LET a == lastAddress'
               i == IndexOfAddress(reported, a, 1)
           IN /\ \E j \in 1 .. Len(reported') : reported'[j].address = a
              /\ (i = 0 /\ Len(reported) = 8)
                   => reported' = SubSeq(reported, 1, 7)
                                    \o <<[address |-> a, count |-> 1]>>
              /\ i # 0
                   => /\ Len(reported') = Len(reported)
                      /\ \A j \in 1 .. Len(reported) :
                            \E k \in 1 .. Len(reported') :
                               /\ reported'[k].address = reported[j].address
                               /\ reported'[k].count =
                                    reported[j].count
                                      + (IF reported[j].address = a THEN 1 ELSE 0)
                      /\ \A j, k \in 1 .. Len(reported') :
                            reported'[j].address = reported'[k].address => j = k
      ]_vars

\* a ninth address has just taken the last slot of a full list
C14_Witness ==
    /\ Len(reported) = 8 /\ seen = 9 /\ lastAddress = 9
    /\ reported[8] = [address |-> 9, count |-> 1]

\* C20: every adapter built for an accepted connection is sent on the
\* channel exactly once, adapters arrive in the order their connections were
\* accepted, nothing is sent on a closed channel, and the channel is closed
\* at most once, by the loop itself.
C20_AcceptLoopDelivery ==
    /\ [][(apc = "adapter" /\ apc' = "send") => (adapter' = conn /\ conn # 0)]_vars
    /\ [][(apc = "send" /\ apc' # "send")
            => (~chClosed /\ delivered' = Append(delivered, adapter))]_vars
    /\ [][delivered' # delivered
            => (/\ apc = "send" /\ ~chClosed
                /\ delivered' = Append(delivered, adapter))]_vars
    /\ [](\A i, j \in 1 .. Len(delivered) : i < j => delivered[i] < delivered[j])
    /\ [][chClosed' # chClosed
            => (~chClosed /\ apc \notin {"init", "returned"} /\ apc' = "returned")]_vars
    /\ [](chClosed => apc \notin {"send", "accept", "adapter", "select"})

\* the first and third connections have been delivered, the second one's
\* adapter could not be built
C20_Witness ==
    /\ delivered = <<1, 3>> /\ logged >= 1 /\ ~chClosed

(***************************************************************************)
(* Properties of the routing table and of identities.                      *)
(***************************************************************************)
\* C15: a bucket never holds more than K entries nor an id twice; update(p)
\* of a stored p moves it to the front and keeps the size and the order of
\* the others, update(p) of an absent p puts it at the front when there is
\* room and leaves a full bucket unchanged.
C15_KBucketInvariant ==
    /\ [](\A i \in BucketIndexes :
            Len(Routes[i]) <= BucketSize /\ NoDuplicates(Routes[i]))
    /\ [][(tableCall'.op = "update" /\ tableCall'.peer # SelfID)
            => LET p == tableCall'.peer
                   b == Routes[BucketIndex(p)]
                   c == Routes'[BucketIndex(p)]
               IN /\ p \in Elems(b)
                       => (/\ c[1] = p /\ Len(c) = Len(b)
                           /\ Without(c, p) = Without(b, p))
                  /\ (p \notin Elems(b) /\ Len(b) < BucketSize)
                       => c = <<p>> \o b
                  /\ (p \notin Elems(b) /\ Len(b) >= BucketSize)
                       => c = b
                  /\ \A i \in BucketIndexes \ {BucketIndex(p)} :
                        Routes'[i] = Routes[i]]_vars

\* an absent peer has just been offered to a full bucket
C15_Witness ==
    /\ tableCall.op = "update" /\ tableCall.peer # SelfID
    /\ Len(Routes[BucketIndex(tableCall.peer)]) = BucketSize
    /\ tableCall.peer \notin Elems(Routes[BucketIndex(tableCall.peer)])

\* C16: find_closest_peers(t, n) returns at most n peers, ascending by XOR
\* distance to t, no id twice, and never the table's own identity.
C16_FindClosestPeersShape ==
    tableCall.op = "find"
      => LET r == tableCall.result
             t == tableCall.peer
         IN /\ Len(r) <= tableCall.n
            /\ \A i, j \in 1 .. Len(r) : i < j => XorID(r[i], t) <= XorID(r[j], t)
            /\ NoDuplicates(r)
            /\ SelfID \notin Elems(r)
            /\ Elems(r) \subseteq StoredPeers(Routes)

\* a query for three peers answered in full from a table holding more,
\* whose buckets hold them in another order
C16_Witness ==
    /\ tableCall.op = "find" /\ tableCall.n = 3 /\ Len(tableCall.result) = 3
    /\ Cardinality(StoredPeers(Routes)) > 3
    /\ Len(Routes[0]) = 2 /\ Closer(Routes[0][2], Routes[0][1], tableCall.peer)

\* C17: find_closest_peers(t, n) returns the min(n, stored) stored peers
\* closest to t: no stored peer left out is strictly closer to t than a
\* returned one.
C17_FindClosestPeersOptimal ==
    tableCall.op = "find"
      => LET r == tableCall.result
             t == tableCall.peer
             stored == StoredPeers(Routes)
         IN /\ Len(r) = IF tableCall.n < Cardinality(stored)
                        THEN tableCall.n ELSE Cardinality(stored)
            /\ \A q \in stored \ Elems(r) :
                  \A i \in 1 .. Len(r) : XorID(q, t) >= XorID(r[i], t)

\* the i-th bit of the id, most significant bit of the first byte first,
\* counted from 0
IdBit(id, i) == (id[(i \div 8) + 1] \div Pow2(7 - (i % 8))) % 2

\* C19: PrefixLen is the number of leading zero bits of the id bytes read
\* most significant bit first, so a first byte of 2^j (j in 0..6) yields
\* 7-j; an all-zero id of L bytes yields 8*L-1; the result is always in
\* 0 .. 8*L-1.
C19_PrefixLen ==
    prefixLen # NoResult
      => LET L == Len(idBytes)
         IN /\ prefixLen \in 0 .. (8 * L - 1)
            /\ IF \A i \in 0 .. (8 * L - 1) : IdBit(idBytes, i) = 0
               THEN prefixLen = 8 * L - 1
               ELSE /\ IdBit(idBytes, prefixLen) = 1
                    /\ \A i \in 0 .. (prefixLen - 1) : IdBit(idBytes, i) = 0
            /\ \A j \in 0 .. 6 : idBytes[1] = Pow2(j) => prefixLen = 7 - j
            /\ \A c \in TestPrefixLenCases :
                  idBytes = PutUint32(c.publicKeyHash) => prefixLen = c.expected

\* PrefixLen has been taken of an all-zero id of two bytes
C19_Witness ==
    /\ idBytes = <<0, 0>> /\ prefixLen = 15

(***************************************************************************)
(* Properties of iterative FIND_NODE.                                      *)
(***************************************************************************)
\* C18: within one find_node invocation the requests sent and not yet
\* answered, timed out or failed never number more than alpha, and no peer
\* is sent more than one request.
C18_FindNodeFanOut ==
    fpc # "idle"
      => /\ Cardinality(outstanding) <= falpha
         /\ \A p \in DOMAIN sent : sent[p] <= 1
         /\ outstanding \subseteq queried

\* in a later round alpha requests are outstanding while another candidate
\* is still unqueried
C18_Witness ==
    /\ falpha = 2 /\ Cardinality(outstanding) = 2
    /\ queried \ outstanding # {} /\ candidates \ (queried \cup batch) # {}

=============================================================================
